---- MODULE Spec2Model ----
(***************************************************************************)
(* A model of the signal synthesis and spectral estimation engine of the   *)
(* Live Signal Lab: the SignalGenerator class (its parameters, its eight   *)
(* per-kind generators, addNoise, computeFFT), the SignalAnalyzer, the     *)
(* SignalVisualizer's charts and waterfall history, the request handler    *)
(* generateAndDisplaySignal that drives them, and the form page with       *)
(* generateIQ and its asynchronous submit handler.                         *)
(*                                                                         *)
(* Specifications. Spec is the signal page: the state the load listener    *)
(* leaves (generator, visualizer with its charts, analyzer), then one      *)
(* whole request per step. SpecGenerator takes the generator's two public  *)
(* methods one at a time; SpecFFT and SpecAnalyzer apply computeFFT and    *)
(* analyzeSignal to chosen arguments; SpecIQ is the form page, a submit    *)
(* split at its await; SpecHeap calls the estimation and analysis methods  *)
(* on named objects and records every object each call creates or assigns  *)
(* to. The visibility of the controls and the slider labels are not part   *)
(* of the state.                                                           *)
(*                                                                         *)
(* Representation.                                                         *)
(*  - A JavaScript array is a function on 0 .. length-1 (the source's own  *)
(*    indices); a hole of `new Array(n)` reads as Undefined.               *)
(*  - A JavaScript number that the code computes with exact integer        *)
(*    arithmetic is Num(n). The results of Math.cos, Math.sin, Math.sqrt,  *)
(*    Math.log and Math.pow are terms that name the expression the code    *)
(*    evaluates (<<"cos", f, i>> is Math.cos(2*PI*f*i/sampleRate)); the    *)
(*    arithmetic on them follows IEEE-754 where that is exact: NaN and     *)
(*    undefined are absorbing, 0*x = 0, 1*x = x, x+0 = x, negation         *)
(*    commutes with * and a + (-b) = a - b.                                *)
(*  - modulationIndex is held in hundredths (the handler divides the       *)
(*    slider's percent value by 100).                                      *)
(*  - Math.random() is an input: the draws that choose the symbols are a   *)
(*    periodic pattern of values in units of 1/RandUnit; the two draws that*)
(*    make the Gaussian factor of sample i stay symbolic, <<"gauss", i>>.  *)
(*  - The arrays hold numSamples = 44100 elements. The state records the   *)
(*    generator's fields and the last call (its argument and its draws);   *)
(*    the object the call returned is Signal, the value of GenerateSignal  *)
(*    on them, computed element by element as the methods compute it.      *)
(*    The fields of a returned object are read as s["field"]: TLC then     *)
(*    evaluates only the elements a formula reads instead of enumerating   *)
(*    every array of the object.                                           *)
(***************************************************************************)
EXTENDS Integers, Sequences, FiniteSets, Bags, TLC

(* ------------------------------ bounds --------------------------------- *)

\* Period of the pattern of Math.random() results that choose the symbols.
DrawPeriod == 2

\* Math.random() results are modelled in units of 1/RandUnit.
RandUnit == 8

\* Requests other than the base request are made while the waterfall history
\* holds fewer lines than this.
MaxVariedLines == 1

\* At most this many submitted forms wait for their audio file at a time.
MaxPending == 2

(* ------------------------- JavaScript values --------------------------- *)

Num(n) == <<"int", n>>

NaN == <<"NaN">>

Undefined == <<"undefined">>

IsNumber(v) == v[1] \notin {"NaN", "undefined"}

IsInt(v) == v[1] = "int"

\* a value with a minus sign: a negative integer or a negated term
IsNegative(v) == (IsInt(v) /\ v[2] < 0) \/ v[1] = "neg"

\* -a; negation is exact
Neg(a) ==
    IF ~IsNumber(a) THEN NaN
    ELSE IF IsInt(a) THEN Num(-a[2])
    ELSE IF a[1] = "neg" THEN a[2]
    ELSE <<"neg", a>>

\* |a|
Magnitude(a) == IF IsNegative(a) THEN Neg(a) ELSE a

\* a * b for a, b without a minus sign
MulMagnitudes(a, b) ==
    IF IsInt(a) /\ IsInt(b) THEN Num(a[2] * b[2])
    ELSE IF IsInt(a) /\ a[2] = 0 THEN Num(0)
    ELSE IF IsInt(b) /\ b[2] = 0 THEN Num(0)
    ELSE IF IsInt(a) /\ a[2] = 1 THEN b
    ELSE IF IsInt(b) /\ b[2] = 1 THEN a
    ELSE <<"mul", a, b>>

\* a * b; undefined * x and NaN * x are NaN
Mul(a, b) ==
    IF ~IsNumber(a) \/ ~IsNumber(b) THEN NaN
    ELSE IF IsNegative(a) # IsNegative(b)
    THEN Neg(MulMagnitudes(Magnitude(a), Magnitude(b)))
    ELSE MulMagnitudes(Magnitude(a), Magnitude(b))

\* a + b for a, b that are numbers, b without a minus sign
AddTerm(a, b) ==
    IF IsInt(a) /\ IsInt(b) THEN Num(a[2] + b[2])
    ELSE IF IsInt(a) /\ a[2] = 0 THEN b
    ELSE IF IsInt(b) /\ b[2] = 0 THEN a
    ELSE <<"add", a, b>>

\* a - b for a, b that are numbers, b without a minus sign
SubTerm(a, b) ==
    IF IsInt(a) /\ IsInt(b) THEN Num(a[2] - b[2])
    ELSE IF IsInt(b) /\ b[2] = 0 THEN a
    ELSE <<"sub", a, b>>

\* a + b; a + (-b) is a - b
Add(a, b) ==
    IF ~IsNumber(a) \/ ~IsNumber(b) THEN NaN
    ELSE IF IsNegative(b) THEN SubTerm(a, Neg(b))
    ELSE AddTerm(a, b)

\* a - b; a - (-b) is a + b
Sub(a, b) ==
    IF ~IsNumber(a) \/ ~IsNumber(b) THEN NaN
    ELSE IF IsNegative(b) THEN AddTerm(a, Neg(b))
    ELSE SubTerm(a, b)

\* Math.floor(a / b) for integers a and b # 0
FloorDiv(a, b) ==
    IF b > 0 THEN a \div b ELSE (-a) \div (-b)

\* a % b of JavaScript for a >= 0 and b # 0: the sign of the dividend
JsMod(a, b) ==
    IF b > 0 THEN a % b ELSE a % (-b)

\* Array.from({length: n}, ...) makes ToLength(n) elements
ToLength(n) == IF n < 0 THEN 0 ELSE n

\* the length of an array
Length(a) == Cardinality(DOMAIN a)

\* the number n / d, d > 0
Ratio(n, d) == IF n % d = 0 THEN Num(n \div d) ELSE <<"ratio", n, d>>

\* n / 100
Hundredths(n) == Ratio(n, 100)

\* sign / Math.sqrt(2)
SqrtHalf(sign) == <<"1/sqrt2", sign>>

\* Math.cos(2 * Math.PI * f * t) at t = i / sampleRate
Cos(f, i) == IF f * i = 0 THEN Num(1) ELSE <<"cos", f, i>>

\* Math.sin(2 * Math.PI * f * t) at t = i / sampleRate
Sin(f, i) == IF f * i = 0 THEN Num(0) ELSE <<"sin", f, i>>

(* ---------------------------- SignalGenerator -------------------------- *)

\* the fields the constructor sets
NewGenerator ==
    [ sampleRate         |-> 44100,
      duration           |-> 1,
      numSamples         |-> 44100 * 1,
      carrierFreq        |-> 1000,
      symbolRate         |-> 100,
      snr                |-> 20,
      modulationIndex    |-> 50,
      messageFreq        |-> 100,
      frequencyDeviation |-> 100 ]

\* params.f || this.f for a numeric f: 0 is falsy
OrElse(supplied, current) == IF supplied # 0 THEN supplied ELSE current

UpdateParameters(g, p) ==
    [ g EXCEPT
        !.carrierFreq        = OrElse(p.carrierFreq, @),
        !.symbolRate         = OrElse(p.symbolRate, @),
        !.snr                = OrElse(p.snr, @),
        !.modulationIndex    = OrElse(p.modulationIndex, @),
        !.messageFreq        = OrElse(p.messageFreq, @),
        !.frequencyDeviation = OrElse(p.frequencyDeviation, @) ]

\* a time array with one sample too many (i <= numSamples); the code is not this
GenerateTimeArray_OffByOne(g) ==
    [ i \in 0 .. g.numSamples |-> Ratio(i, g.sampleRate) ]

GenerateTimeArray(g) ==
    [ i \in 0 .. g.numSamples - 1 |-> Ratio(i, g.sampleRate) ]

\* new Array(n) left unfilled: every element reads undefined; the code is not this
ZeroArray_NoFill(n) == [ i \in 0 .. n - 1 |-> Undefined ]

\* new Array(n).fill(0)
ZeroArray(n) == [ i \in 0 .. n - 1 |-> Num(0) ]

\* signal.reduce((sum, val) => sum + val * val, 0) / signal.length
SignalPower(signal) ==
    IF \E i \in DOMAIN signal : ~IsNumber(signal[i]) THEN NaN
    ELSE <<"meansquare">>

\* Math.sqrt(signalPower / Math.pow(10, snrDb / 10))
NoiseAmplitude(signalPower, snrDb) ==
    IF ~IsNumber(signalPower) THEN NaN
    ELSE <<"noiseAmplitude", signalPower, snrDb>>

\* Math.sqrt(-2 * Math.log(u1)) * Math.cos(2 * Math.PI * u2) for sample i
Gauss(i) == <<"gauss", i>>

AddNoise(signal, snrDb) ==
    LET noiseAmplitude == NoiseAmplitude(SignalPower(signal), snrDb)
    IN  [ i \in DOMAIN signal |->
            Add(signal[i], Mul(noiseAmplitude, Gauss(i))) ]

\* the constellation field: null, or an array of points
Null == [ isNull |-> TRUE, points |-> <<>> ]

ArrayOf(points) == [ isNull |-> FALSE, points |-> points ]

\* a returned signal object
Returned(time, realSignal, imagSignal, constellation) ==
    [ threw         |-> "none",
      time          |-> time,
      realSignal    |-> realSignal,
      imagSignal    |-> imagSignal,
      constellation |-> constellation ]

\* a call that ended in an exception returns no object
Threw(error) ==
    [ threw         |-> error,
      time          |-> <<>>,
      realSignal    |-> <<>>,
      imagSignal    |-> <<>>,
      constellation |-> Null ]

GenerateAM(g) ==
    LET timeArray == GenerateTimeArray(g)
        carrier == [ i \in DOMAIN timeArray |-> Cos(g.carrierFreq, i) ]
        message == [ i \in DOMAIN timeArray |-> Cos(g.messageFreq, i) ]
        modulatedSignal == [ i \in DOMAIN timeArray |->
            Mul(Add(Num(1), Mul(Hundredths(g.modulationIndex), message[i])),
                carrier[i]) ]
    IN  Returned(timeArray, AddNoise(modulatedSignal, g.snr),
                 ZeroArray(g.numSamples), Null)

GenerateFM(g) ==
    LET timeArray == GenerateTimeArray(g)
        \* Math.cos(instantPhase) with the message integrated up to sample i
        modulatedSignal == [ i \in DOMAIN timeArray |->
            <<"fm", g.carrierFreq, g.frequencyDeviation, g.modulationIndex,
              g.messageFreq, i>> ]
    IN  Returned(timeArray, AddNoise(modulatedSignal, g.snr),
                 ZeroArray(g.numSamples), Null)

\* the k-th Math.random() result of the symbol draws, in units of 1/RandUnit
Draw(draws, k) == draws[k % DrawPeriod]

\* the indices 0 .. n-1 in loop order
Indices(n) == [ j \in 1 .. n |-> j - 1 ]

\* Math.floor(this.sampleRate / this.symbolRate); symbolRate is never 0
SamplesPerSymbol(g) == FloorDiv(g.sampleRate, g.symbolRate)

\* Math.floor(this.numSamples / samplesPerSymbol), Infinity when that is 0
NumSymbols(g) == FloorDiv(g.numSamples, SamplesPerSymbol(g))

\* Math.floor(i / samplesPerSymbol)
SymbolIndex(g, i) == FloorDiv(i, SamplesPerSymbol(g))

\* symbolIndex < symbols.length ? symbols[symbolIndex] : fallback;
\* an index that is not an element of the array reads undefined
SymbolAt(symbols, symbolIndex, fallback) ==
    IF symbolIndex < Length(symbols)
    THEN IF symbolIndex \in DOMAIN symbols THEN symbols[symbolIndex]
         ELSE Undefined
    ELSE fallback

\* a push at every symbol boundary, the trailing partial symbol included;
\* the code is not this
PushedAt_NoLengthTest(g, symbols) ==
    SelectSeq(Indices(g.numSamples),
              LAMBDA i : JsMod(i, SamplesPerSymbol(g)) = 0)

\* the loop indices at which a constellation point is pushed
PushedAt(g, symbols) ==
    SelectSeq(Indices(g.numSamples),
              LAMBDA i : /\ JsMod(i, SamplesPerSymbol(g)) = 0
                         /\ SymbolIndex(g, i) < Length(symbols))

\* Math.random() > 0.5 ? 1 : -1
BpskBit(u) == IF 2 * u > RandUnit THEN Num(1) ELSE Num(-1)

GenerateBPSK(g, draws) ==
    LET timeArray == GenerateTimeArray(g)
        bits == [ k \in 0 .. ToLength(NumSymbols(g)) - 1 |->
                    BpskBit(Draw(draws, k)) ]
        bit(i) == SymbolAt(bits, SymbolIndex(g, i), Num(1))
        modulatedReal == [ i \in 0 .. g.numSamples - 1 |->
                             Mul(bit(i), Cos(g.carrierFreq, i)) ]
        modulatedImag == [ i \in 0 .. g.numSamples - 1 |-> Num(0) ]
        pushed == PushedAt(g, bits)
        constellation == [ k \in 1 .. Len(pushed) |->
                             [ x |-> bit(pushed[k]), y |-> Num(0) ] ]
    IN  IF SamplesPerSymbol(g) = 0
        THEN Threw("RangeError")    \* Array.from({length: Infinity})
        ELSE Returned(timeArray, AddNoise(modulatedReal, g.snr),
                      modulatedImag, ArrayOf(constellation))

\* symbols at (+-1, +-1), not scaled to the unit circle; the code is not this
QpskSymbol_Unnormalised(u) ==
    LET dibit == (4 * u) \div RandUnit
    IN  CASE dibit = 0 -> [ i |-> Num(1),  q |-> Num(1) ]
          [] dibit = 1 -> [ i |-> Num(-1), q |-> Num(1) ]
          [] dibit = 2 -> [ i |-> Num(-1), q |-> Num(-1) ]
          [] dibit = 3 -> [ i |-> Num(1),  q |-> Num(-1) ]

\* the constellation point of Math.floor(Math.random() * 4)
QpskSymbol(u) ==
    LET dibit == (4 * u) \div RandUnit
    IN  CASE dibit = 0 -> [ i |-> SqrtHalf(1),  q |-> SqrtHalf(1) ]
          [] dibit = 1 -> [ i |-> SqrtHalf(-1), q |-> SqrtHalf(1) ]
          [] dibit = 2 -> [ i |-> SqrtHalf(-1), q |-> SqrtHalf(-1) ]
          [] dibit = 3 -> [ i |-> SqrtHalf(1),  q |-> SqrtHalf(-1) ]

GenerateQPSK(g, draws) ==
    LET timeArray == GenerateTimeArray(g)
        symbols == [ k \in 0 .. ToLength(NumSymbols(g)) - 1 |->
                       QpskSymbol(Draw(draws, k)) ]
        fallback == [ i |-> SqrtHalf(1), q |-> SqrtHalf(1) ]
        \* symbols[symbolIndex] is undefined: reading symbol.i throws
        noSymbol(i) == /\ SymbolIndex(g, i) < Length(symbols)
                       /\ SymbolIndex(g, i) \notin DOMAIN symbols
        symbol(i) == IF SymbolIndex(g, i) < Length(symbols)
                     THEN symbols[SymbolIndex(g, i)] ELSE fallback
        modulatedReal == [ i \in 0 .. g.numSamples - 1 |->
                             Mul(symbol(i).i, Cos(g.carrierFreq, i)) ]
        modulatedImag == [ i \in 0 .. g.numSamples - 1 |->
                             Mul(symbol(i).q, Sin(g.carrierFreq, i)) ]
        pushed == PushedAt(g, symbols)
        constellation == [ k \in 1 .. Len(pushed) |->
                             [ x |-> symbol(pushed[k]).i,
                               y |-> symbol(pushed[k]).q ] ]
        combinedSignal == [ idx \in DOMAIN modulatedReal |->
                              Sub(modulatedReal[idx], modulatedImag[idx]) ]
    IN  IF SamplesPerSymbol(g) = 0
        THEN Threw("RangeError")    \* Array.from({length: Infinity})
        ELSE IF \E i \in 0 .. g.numSamples - 1 : noSymbol(i)
        THEN Threw("TypeError")
        ELSE Returned(timeArray, AddNoise(combinedSignal, g.snr),
                      modulatedImag, ArrayOf(constellation))

\* Math.random() > 0.5 ? 1 : 0
FskBit(u) == IF 2 * u > RandUnit THEN Num(1) ELSE Num(0)

\* the truthiness of a bit read from the bits array
Truthy(v) == IsNumber(v) /\ v # Num(0)

GenerateFSK(g, draws) ==
    LET timeArray == GenerateTimeArray(g)
        bits == [ k \in 0 .. ToLength(NumSymbols(g)) - 1 |->
                    FskBit(Draw(draws, k)) ]
        freq0 == g.carrierFreq - g.frequencyDeviation
        freq1 == g.carrierFreq + g.frequencyDeviation
        bit(i) == SymbolAt(bits, SymbolIndex(g, i), Num(0))
        modulatedSignal == [ i \in 0 .. g.numSamples - 1 |->
            Cos(IF Truthy(bit(i)) THEN freq1 ELSE freq0, i) ]
        pushed == PushedAt(g, bits)
        constellation == [ k \in 1 .. Len(pushed) |->
            [ x |-> IF Truthy(bit(pushed[k])) THEN Num(1) ELSE Num(-1),
              y |-> Num(0) ] ]
    IN  IF SamplesPerSymbol(g) = 0
        THEN Threw("RangeError")    \* Array.from({length: Infinity})
        ELSE Returned(timeArray, AddNoise(modulatedSignal, g.snr),
                      ZeroArray(g.numSamples), ArrayOf(constellation))

\* the sum of four sinusoids; every sine is 0 at t = 0
GenerateVoiceLikeSignal(g, timeArray) ==
    [ i \in DOMAIN timeArray |->
        IF i = 0 THEN Num(0) ELSE <<"voice", g.messageFreq, i>> ]

\* a transform whose loop starts at index 2; the code is not this
ApproximateHilbertTransform_FromTwo(signal) ==
    [ i \in 0 .. Length(signal) - 1 |->
        IF i >= 2 THEN Mul(Ratio(1, 2), Sub(signal[i], signal[i - 2]))
        ELSE Undefined ]

\* new Array(signal.length), elements 3 .. length-1 assigned
ApproximateHilbertTransform(signal) ==
    [ i \in 0 .. Length(signal) - 1 |->
        IF i >= 3 THEN Mul(Ratio(1, 2), Sub(signal[i], signal[i - 2]))
        ELSE Undefined ]

\* the argument of approximateHilbertTransform as the call leaves it: the
\* loop reads signal[i] and signal[i - 2] and assigns to hilbertSignal only
HilbertInputAfter(signal) == signal

\* message[i] * carrier[i] - hilbertMessage[i] * carrierShifted[i]
ModulatedLSB(g) ==
    LET timeArray == GenerateTimeArray(g)
        message == GenerateVoiceLikeSignal(g, timeArray)
        hilbertMessage == ApproximateHilbertTransform(message)
    IN  [ i \in DOMAIN timeArray |->
            Sub(Mul(message[i], Cos(g.carrierFreq, i)),
                Mul(hilbertMessage[i], Sin(g.carrierFreq, i))) ]

GenerateLSB(g) ==
    LET timeArray == GenerateTimeArray(g)
        message == GenerateVoiceLikeSignal(g, timeArray)
        hilbertMessage == ApproximateHilbertTransform(message)
    IN  Returned(timeArray, AddNoise(ModulatedLSB(g), g.snr),
                 hilbertMessage, Null)

\* message[i] * carrier[i] + hilbertMessage[i] * carrierShifted[i]
ModulatedUSB(g) ==
    LET timeArray == GenerateTimeArray(g)
        message == GenerateVoiceLikeSignal(g, timeArray)
        hilbertMessage == ApproximateHilbertTransform(message)
    IN  [ i \in DOMAIN timeArray |->
            Add(Mul(message[i], Cos(g.carrierFreq, i)),
                Mul(hilbertMessage[i], Sin(g.carrierFreq, i))) ]

GenerateUSB(g) ==
    LET timeArray == GenerateTimeArray(g)
        message == GenerateVoiceLikeSignal(g, timeArray)
        hilbertMessage == ApproximateHilbertTransform(message)
    IN  Returned(timeArray, AddNoise(ModulatedUSB(g), g.snr),
                 hilbertMessage, Null)

\* a modulation with the two signs exchanged; the code is not this
ModulatedSSB_SignsExchanged(g, isLSB) ==
    LET timeArray == GenerateTimeArray(g)
        message == GenerateVoiceLikeSignal(g, timeArray)
        hilbertMessage == ApproximateHilbertTransform(message)
    IN  [ i \in DOMAIN timeArray |->
            Add(Mul(message[i], Cos(g.carrierFreq, i)),
                Mul(Mul(IF isLSB THEN Num(1) ELSE Num(-1), hilbertMessage[i]),
                    Sin(g.carrierFreq, i))) ]

\* message[i] * carrier[i]
\*   + (isLSB ? -1 : 1) * hilbertMessage[i] * carrierShifted[i]
ModulatedSSB(g, isLSB) ==
    LET timeArray == GenerateTimeArray(g)
        message == GenerateVoiceLikeSignal(g, timeArray)
        hilbertMessage == ApproximateHilbertTransform(message)
    IN  [ i \in DOMAIN timeArray |->
            Add(Mul(message[i], Cos(g.carrierFreq, i)),
                Mul(Mul(IF isLSB THEN Num(-1) ELSE Num(1), hilbertMessage[i]),
                    Sin(g.carrierFreq, i))) ]

GenerateSSB(g, isLSB) ==
    LET timeArray == GenerateTimeArray(g)
        message == GenerateVoiceLikeSignal(g, timeArray)
        hilbertMessage == ApproximateHilbertTransform(message)
    IN  Returned(timeArray, AddNoise(ModulatedSSB(g, isLSB), g.snr),
                 hilbertMessage, Null)

\* a dispatch that sends 'fsk' to generateFM; the code is not this
GenerateSignal_FskAsFm(modulationType, g, draws) ==
    CASE modulationType = "am"   -> GenerateAM(g)
      [] modulationType = "fm"   -> GenerateFM(g)
      [] modulationType = "bpsk" -> GenerateBPSK(g, draws)
      [] modulationType = "qpsk" -> GenerateQPSK(g, draws)
      [] modulationType = "fsk"  -> GenerateFM(g)
      [] modulationType = "lsb"  -> GenerateLSB(g)
      [] modulationType = "usb"  -> GenerateUSB(g)
      [] modulationType = "ssb"  -> GenerateSSB(g, FALSE)
      [] OTHER                   -> GenerateAM(g)

GenerateSignal(modulationType, g, draws) ==
    CASE modulationType = "am"   -> GenerateAM(g)
      [] modulationType = "fm"   -> GenerateFM(g)
      [] modulationType = "bpsk" -> GenerateBPSK(g, draws)
      [] modulationType = "qpsk" -> GenerateQPSK(g, draws)
      [] modulationType = "fsk"  -> GenerateFSK(g, draws)
      [] modulationType = "lsb"  -> GenerateLSB(g)
      [] modulationType = "usb"  -> GenerateUSB(g)
      [] modulationType = "ssb"  -> GenerateSSB(g, FALSE)
      [] OTHER                   -> GenerateAM(g)

\* cos(2 pi p / 1024) for a phase p counted in 1/1024 turns: cos is even, so
\* the phases p and 1024 - p name the same sample
FoldPhase(p) == IF p % 1024 > 512 THEN 1024 - (p % 1024) ELSE p % 1024

\* sample n of a sinusoid at bin b of the 1024-point transform, i.e. of
\* frequency b * sampleRate / 1024: cos(2 pi b n / 1024)
Tone(b, n) == <<"tone", FoldPhase(b * n)>>

\* the window computeFFT transforms
FftWindow(signal, fftSize) ==
    LET downsampleFactor == Length(signal) \div fftSize
    IN  [ i \in 0 .. fftSize - 1 |->
            IF i * downsampleFactor < Length(signal)
            THEN signal[i * downsampleFactor] ELSE Num(0) ]

\* a transform that keeps all fftSize bins, not the lower half; the code is
\* not this
ComputeFFT_AllBins(g, signal) ==
    LET fftSize == 1024
        fft == FftWindow(signal, fftSize)
        notANumber == \E n \in DOMAIN fft : ~IsNumber(fft[n])
        allZero == \A n \in DOMAIN fft : fft[n] = Num(0)
    IN  [ magnitude |->
            [ k \in 0 .. fftSize - 1 |->
                IF notANumber THEN NaN
                ELSE IF allZero THEN Num(0)
                ELSE <<"magnitude", k>> ],
          frequencies |->
            [ k \in 0 .. fftSize - 1 |->
                Ratio(k * g.sampleRate, fftSize) ] ]

ComputeFFT(g, signal) ==
    LET fftSize == 1024
        fft == FftWindow(signal, fftSize)
        notANumber == \E n \in DOMAIN fft : ~IsNumber(fft[n])
        allZero == \A n \in DOMAIN fft : fft[n] = Num(0)
        \* the window is cos(2 pi c n / 1024) for a whole number c of cycles
        c == IF fft[1][1] = "tone" THEN fft[1][2] ELSE -1
        sinusoid == c >= 0 /\ \A n \in DOMAIN fft : fft[n] = Tone(c, n)
        \* |sum of cos(2 pi c n / N) e^(-j 2 pi k n / N)| / N: N at k = c = 0,
        \* N / 2 at k = c and k = N - c otherwise, 0 at every other k
        line(k) == IF k # c THEN Num(0)
                   ELSE IF c = 0 THEN Num(1) ELSE Ratio(1, 2)
    IN  [ magnitude |->
            [ k \in 0 .. (fftSize \div 2) - 1 |->
                IF notANumber THEN NaN
                ELSE IF allZero THEN Num(0)
                ELSE IF sinusoid THEN line(k)
                ELSE <<"magnitude", k>> ],
          frequencies |->
            [ k \in 0 .. (fftSize \div 2) - 1 |->
                Ratio(k * g.sampleRate, fftSize) ] ]

(* ---------------------------- SignalAnalyzer --------------------------- *)

\* signal.reduce((sum, sample) => sum + sample * sample, 0) over the first n
\* samples of an integer signal
RECURSIVE SumSquares(_, _)
SumSquares(signal, n) ==
    IF n <= 0 THEN 0
    ELSE signal[n - 1][2] * signal[n - 1][2] + SumSquares(signal, n - 1)

\* 5 * detrended[i]: 5 * signal[i] less the sum of the five samples averaged
Residual5(signal, i) ==
    5 * signal[i][2]
      - (signal[i - 4][2] + signal[i - 2][2] + signal[i][2]
           + signal[i + 2][2] + signal[i + 4][2])

\* 25 * detrended.reduce((sum, val) => sum + val * val, 0): the elements
\* 4 .. last of detrended; reduce skips the elements never assigned
RECURSIVE SumResiduals(_, _)
SumResiduals(signal, last) ==
    IF last < 4 THEN 0
    ELSE Residual5(signal, last) * Residual5(signal, last)
           + SumResiduals(signal, last - 1)

\* detrended.reduce((sum, val) => sum + val * val, 0) / detrended.length for
\* an integer signal: detrended is new Array(signal.length), so the divisor
\* counts the elements never assigned as well
NoisePower(signal) ==
    LET n == Length(signal)
    IN  IF n = 0 THEN NaN                        \* 0 / 0
        ELSE Ratio(SumResiduals(signal, n - 5), 25 * n)

\* Math.max(0, Math.min(30, 20 * Math.log10(signalRms / (noiseRms + 1e-10)))):
\* with signalPower = S / n and noisePower = D / (25 n) the ratio squared is
\* 25 S / D; NaN passes through Math.min and Math.max
EstimateSnr(signal) ==
    LET n == Length(signal)
        S == SumSquares(signal, n)
        D == SumResiduals(signal, n - 5)
    IN  IF n = 0 THEN NaN                        \* 0 / 0
        ELSE IF \E i \in 0 .. n - 1 : ~IsNumber(signal[i]) THEN NaN
        ELSE IF \E i \in 0 .. n - 1 : ~IsInt(signal[i]) THEN <<"snrDb">>
        ELSE IF S = 0 THEN Num(0)                \* log10(0) = -Infinity
        ELSE IF D = 0 THEN Num(30)               \* signalRms / 1e-10
        ELSE IF 25 * S <= D THEN Num(0)
        ELSE IF S > 40 * D THEN Num(30)
        ELSE <<"snrDb", S, D>>                   \* strictly between 0 and 30

\* the per-kind bandwidth estimateBandwidth starts from
TheoreticalBandwidth(modulationType, symbolRate) ==
    CASE modulationType = "am" -> 2 * OrElse(symbolRate, 100)
      [] modulationType = "fm" -> 2 * (100 + OrElse(symbolRate, 100))
      [] modulationType \in {"bpsk", "qpsk"} -> symbolRate
      [] modulationType = "fsk" -> 2 * 100 + symbolRate
      [] modulationType \in {"lsb", "usb", "ssb"} -> OrElse(symbolRate, 100)
      [] OTHER -> OrElse(symbolRate, 100)

\* an fftData argument: null, or an object with two arrays
NoFftData == [ isNull |-> TRUE, magnitude |-> <<>>, frequencies |-> <<>> ]

FftDataOf(magnitude, frequencies) ==
    [ isNull |-> FALSE, magnitude |-> magnitude, frequencies |-> frequencies ]

\* the magnitudes are numbers, and not all of them numbers the model computes
Uncomputed(magnitude) ==
    /\ \A i \in DOMAIN magnitude : IsNumber(magnitude[i])
    /\ \E i \in DOMAIN magnitude : ~IsInt(magnitude[i])

\* Math.max(...magnitude): NaN if an element is not a number, -Infinity for
\* no elements
MaxOf(magnitude) ==
    IF \E i \in DOMAIN magnitude : ~IsNumber(magnitude[i]) THEN NaN
    ELSE IF DOMAIN magnitude = {} THEN <<"-Infinity">>
    ELSE IF Uncomputed(magnitude) THEN <<"max", "magnitude">>
    ELSE Num(CHOOSE m \in { magnitude[i][2] : i \in DOMAIN magnitude } :
               \A i \in DOMAIN magnitude : magnitude[i][2] <= m)

\* the bins with fftData.magnitude[i] > peakMagnitude / 10; comparisons with
\* NaN are false
AboveThreshold(magnitude) ==
    LET peakMagnitude == MaxOf(magnitude)
    IN  { i \in DOMAIN magnitude :
            /\ IsInt(peakMagnitude)
            /\ 10 * magnitude[i][2] > peakMagnitude[2] }

\* maxFreq - minFreq, both starting from frequencies[0] and updated at the
\* bins above the threshold
MeasuredBandwidth(fftData) ==
    LET frequencies == fftData.frequencies
        seen == { frequencies[i][2] :
                    i \in {0} \cup AboveThreshold(fftData.magnitude) }
        minFreq == CHOOSE f \in seen : \A h \in seen : f <= h
        maxFreq == CHOOSE f \in seen : \A h \in seen : h <= f
    IN  IF Length(frequencies) = 0 THEN NaN     \* undefined - undefined
        ELSE IF Uncomputed(fftData.magnitude) THEN <<"maxFreq - minFreq">>
        ELSE Num(maxFreq - minFreq)

\* an estimate that prefers every positive measured span, however wide; the
\* code is not this
EstimateBandwidth_NoUpperLimit(fftData, modulationType, symbolRate) ==
    LET bandwidth == TheoreticalBandwidth(modulationType, symbolRate)
        measuredBandwidth == MeasuredBandwidth(fftData)
    IN  IF /\ ~fftData.isNull
           /\ IsInt(measuredBandwidth)
           /\ measuredBandwidth[2] > 0
        THEN measuredBandwidth
        ELSE Num(bandwidth)

EstimateBandwidth(fftData, modulationType, symbolRate) ==
    LET bandwidth == TheoreticalBandwidth(modulationType, symbolRate)
        measuredBandwidth == MeasuredBandwidth(fftData)
        top == fftData.frequencies[Length(fftData.frequencies) - 1]
    IN  IF ~fftData.isNull /\ Uncomputed(fftData.magnitude)
        THEN <<"measured or", Num(bandwidth)>>
        ELSE
        IF /\ ~fftData.isNull
           /\ IsInt(measuredBandwidth)
           /\ measuredBandwidth[2] > 0
           /\ 2 * measuredBandwidth[2] < top[2]
        THEN measuredBandwidth
        ELSE Num(bandwidth)

\* this.signalInfo[modulationType].name
SignalInfo ==
    [ am   |-> "Amplitude Modulation (AM)",
      fm   |-> "Frequency Modulation (FM)",
      bpsk |-> "Binary Phase Shift Keying (BPSK)",
      qpsk |-> "Quadrature Phase Shift Keying (QPSK)",
      fsk  |-> "Frequency Shift Keying (FSK)",
      lsb  |-> "Lower Sideband (LSB)",
      usb  |-> "Upper Sideband (USB)",
      ssb  |-> "Single Sideband (SSB)" ]

\* the insights text: the entry of the kind with the carrier frequency and
\* the rate, labelled as a symbol rate for the symbol-based kinds
GenerateInsights(modulationType, carrierFreq, symbolRate) ==
    IF modulationType \notin DOMAIN SignalInfo
    THEN <<"No information available for this modulation type.">>
    ELSE << SignalInfo[modulationType],
            "Carrier Frequency: ", carrierFreq, " Hz",
            IF modulationType \in {"bpsk", "qpsk", "fsk"}
            THEN "Symbol Rate: " ELSE "Message Frequency: ",
            symbolRate >>

\* value.toFixed(1) + unit
ToFixed1(value, unit) == <<"toFixed(1)", value, unit>>

\* the object analyzeSignal returns
AnalyzeSignal(signal, fftData, params) ==
    [ signalType |-> IF params.modulationType \in DOMAIN SignalInfo
                     THEN SignalInfo[params.modulationType]
                     ELSE "Unknown modulation",
      bandwidth  |-> ToFixed1(EstimateBandwidth(fftData, params.modulationType,
                                                params.symbolRate), " Hz"),
      snr        |-> ToFixed1(EstimateSnr(signal["realSignal"]), " dB"),
      insights   |-> GenerateInsights(params.modulationType, params.carrierFreq,
                                      params.symbolRate) ]

(* ------------------------------ generateIQ ----------------------------- *)

\* the value null
NullValue == <<"null">>

\* the audioData argument: null, or an array of samples
NoAudio == [ isNull |-> TRUE, data |-> <<>> ]

AudioOf(data) == [ isNull |-> FALSE, data |-> data ]

\* a value stored in a Float32Array: rounded to single precision; small
\* integers are stored exactly
Fround(v) == IF IsInt(v) THEN v ELSE <<"fround", v>>

\* Math.pow(10, -snr / 20), that is Math.sqrt(1 / Math.pow(10, snr / 10))
NoiseStd(snr) == <<"noiseAmplitude", Num(1), snr>>

\* a read of audioData[n] without the modulo, undefined beyond the end; the
\* code is not this
AudioSample_NoWrap(audioData, n) ==
    IF audioData.isNull THEN NullValue
    ELSE IF n \in DOMAIN audioData.data THEN audioData.data[n]
    ELSE Undefined

\* audioData && audioData[n % audioData.length]; n % 0 is NaN, and an array
\* has no element NaN
AudioSample(audioData, n) ==
    IF audioData.isNull THEN NullValue
    ELSE IF Length(audioData.data) = 0 THEN Undefined
    ELSE audioData.data[n % Length(audioData.data)]

\* audioSample || 0
OrZero(audioSample) ==
    IF IsInt(audioSample) /\ audioSample # Num(0) THEN audioSample ELSE Num(0)

\* audioSample > 0; null > 0 and undefined > 0 are false
Positive(audioSample) == IsInt(audioSample) /\ audioSample[2] > 0

\* amp, 1 unless the kind is AM
IqAmp(mod, audioSample) ==
    IF mod = "AM" THEN Add(Num(1), OrZero(audioSample)) ELSE Num(1)

\* what the switch adds to the phase, in quarter turns (Math.PI / 2)
IqPhaseShift(mod, audioSample) ==
    CASE mod = "FM"   -> 2 * OrZero(audioSample)[2]
      [] mod = "BPSK" -> IF Positive(audioSample) THEN 2 ELSE 0
      [] mod = "QPSK" -> OrZero(audioSample)[2]
      [] mod = "FSK"  -> IF Positive(audioSample) THEN 1 ELSE -1
      [] OTHER        -> 0

\* i[n] = amp * Math.cos(phase) + noiseI[n], phase = 2 pi carrier n / rate
\* plus the shift
IqI(mod, carrier, rate, snr, audioSample, n) ==
    Fround(Add(Mul(IqAmp(mod, audioSample),
                   <<"cosq", carrier, rate, n,
                     IqPhaseShift(mod, audioSample) % 4>>),
               Fround(Mul(NoiseStd(snr), <<"gaussI", n>>))))

\* q[n] = amp * Math.sin(phase) + noiseQ[n]
IqQ(mod, carrier, rate, snr, audioSample, n) ==
    Fround(Add(Mul(IqAmp(mod, audioSample),
                   <<"sinq", carrier, rate, n,
                     IqPhaseShift(mod, audioSample) % 4>>),
               Fround(Mul(NoiseStd(snr), <<"gaussQ", n>>))))

GenerateIQ(mod, carrier, rate, snr, samples, audioData) ==
    [ t |-> [ n \in 0 .. samples - 1 |-> Fround(Ratio(n, rate)) ],
      i |-> [ n \in 0 .. samples - 1 |->
                IqI(mod, carrier, rate, snr, AudioSample(audioData, n), n) ],
      q |-> [ n \in 0 .. samples - 1 |->
                IqQ(mod, carrier, rate, snr, AudioSample(audioData, n), n) ] ]

\* readAudioFile(file) once its promise is fulfilled: null without a file,
\* channel 0 of the decoded audio otherwise
ReadAudioFile(file) == IF file.chosen THEN file.audioData ELSE NoAudio

\* what updatePlots draws: the I and Q traces, the magnitudes of a 1024-point
\* transform of the first 1024 samples, and these in three chunks of 256 as
\* heat maps. With fewer than 1024 samples the sums read undefined beyond
\* the end and every magnitude is NaN
UpdatePlots(data) ==
    LET fftSize == 1024
        chunk == 256
        spectrum == [ k \in 0 .. fftSize - 1 |->
                        IF Length(data["i"]) < fftSize THEN NaN
                        ELSE <<"spectrum", k>> ]
    IN  [ timePlot  |-> << [ x |-> data["t"], y |-> data["i"], name |-> "I" ],
                           [ x |-> data["t"], y |-> data["q"], name |-> "Q" ] >>,
          fftPlot   |-> [ x |-> [ k \in 0 .. fftSize - 1 |-> Num(k) ],
                          y |-> spectrum ],
          waterfall |-> [ c \in 0 .. ((fftSize - chunk - 1) \div chunk) |->
                            [ z |-> [ j \in 0 .. chunk - 1 |->
                                        spectrum[c * chunk + j] ] ] ] ]

\* analyzeSignal(data, { mod, carrier, rate, snr }) of the form page: the four
\* lines of the analysis text
AnalysisText(params) ==
    << <<"Detected Modulation: ", params.mod>>,
       <<"Carrier Frequency: ", params.carrier, " Hz">>,
       <<"Estimated SNR: ", params.snr, " dB">>,
       <<"Bandwidth ~ ", params.rate, " Hz">> >>

(* --------------------------- SignalVisualizer -------------------------- *)

\* this.maxWaterfallLines
MaxWaterfallLines == 20

\* this.colorScale
ColorScale ==
    << "rgba(0, 0, 50, 1)",      "rgba(0, 0, 100, 1)",
       "rgba(0, 0, 150, 1)",     "rgba(0, 50, 150, 1)",
       "rgba(0, 100, 150, 1)",   "rgba(50, 150, 150, 1)",
       "rgba(100, 200, 150, 1)", "rgba(150, 250, 150, 1)",
       "rgba(200, 250, 100, 1)", "rgba(250, 250, 50, 1)",
       "rgba(250, 200, 0, 1)",   "rgba(250, 150, 0, 1)",
       "rgba(250, 100, 0, 1)",   "rgba(250, 50, 0, 1)",
       "rgba(250, 0, 0, 1)" >>

\* Math.min(...magnitudes) of integer magnitudes
MinOf(magnitude) ==
    CHOOSE m \in { magnitude[i][2] : i \in DOMAIN magnitude } :
        \A i \in DOMAIN magnitude : m <= magnitude[i][2]

\* the colour of each magnitude: colorScale[Math.min(Math.floor(
\* (mag - min) / range * colorScale.length), colorScale.length - 1)] with
\* range = max - min || 1; a magnitude that is not a number makes max, min
\* and every index NaN, and colorScale[NaN] is undefined
GetColorGradient(magnitudes) ==
    IF DOMAIN magnitudes = {} THEN <<>>
    ELSE IF \E i \in DOMAIN magnitudes : ~IsNumber(magnitudes[i])
    THEN [ i \in DOMAIN magnitudes |-> Undefined ]
    ELSE IF Uncomputed(magnitudes)
    THEN [ i \in DOMAIN magnitudes |-> <<"colorScale", magnitudes[i]>> ]
    ELSE LET max == MaxOf(magnitudes)[2]
             min == MinOf(magnitudes)
             range == OrElse(max - min, 1)
         IN  [ i \in DOMAIN magnitudes |->
                 LET scaled == ((magnitudes[i][2] - min) * Len(ColorScale))
                                 \div range
                 IN  ColorScale[ (IF scaled < Len(ColorScale) - 1
                                  THEN scaled ELSE Len(ColorScale) - 1) + 1 ] ]

\* i / (this.waterfallData.length - 1): 0 / 0 is NaN
StackedY(i, length) == IF length - 1 = 0 THEN NaN ELSE Ratio(i, length - 1)

\* the line unshift adds for fftData, at y = 0
WaterfallLine(fftData) ==
    [ data        |-> [ i \in DOMAIN fftData.magnitude |->
                          [ x |-> IF i \in DOMAIN fftData.frequencies
                                  THEN fftData.frequencies[i] ELSE Undefined,
                            y |-> Num(0) ] ],
      borderColor |-> GetColorGradient(fftData.magnitude),
      borderWidth |-> 2,
      fill        |-> FALSE,
      pointRadius |-> 0 ]

\* the points updateTimeChart draws: every downsampleFactor-th sample
UpdateTimeChart(signal) ==
    LET length == Length(signal["time"])
        floor == length \div 1000
        downsampleFactor == IF floor > 1 THEN floor ELSE 1
    IN  [ k \in 0 .. ((length + downsampleFactor - 1) \div downsampleFactor) - 1 |->
            [ x |-> signal["time"][k * downsampleFactor],
              y |-> signal["realSignal"][k * downsampleFactor] ] ]

\* 20 * Math.log10(Math.max(magnitude, 1e-6))
MagnitudeDb(magnitude) ==
    IF ~IsNumber(magnitude) THEN NaN
    ELSE IF magnitude = Num(0) THEN Num(-120)
    ELSE <<"dB", magnitude>>

\* the points updateFrequencyChart draws
UpdateFrequencyChart(fftData) ==
    [ i \in DOMAIN fftData.magnitude |->
        [ x |-> IF i \in DOMAIN fftData.frequencies
                THEN fftData.frequencies[i] ELSE Undefined,
          y |-> MagnitudeDb(fftData.magnitude[i]) ] ]

\* this.waterfallData after updateWaterfallChart(fftData): the new line first,
\* the first maxWaterfallLines lines kept, every point of line i given
\* y = i / (length - 1)
UpdateWaterfallChart(waterfallData, fftData) ==
    LET unshifted == <<WaterfallLine(fftData)>> \o waterfallData
        kept == IF Len(unshifted) > MaxWaterfallLines
                THEN SubSeq(unshifted, 1, MaxWaterfallLines) ELSE unshifted
    IN  [ i \in 1 .. Len(kept) |->
            [ kept[i] EXCEPT !.data =
                [ j \in DOMAIN @ |->
                    [ x |-> @[j].x, y |-> StackedY(i - 1, Len(kept)) ] ] ] ]

(* ---------------------- the objects a call writes ---------------------- *)

\* What a call does to the objects of the program, as the list of its
\* statements that create an object or assign to an element or a field of
\* one: the object assigned to and the values by key. A local holding a
\* number is no object; reduce, map and a spread read their array.
Effect(object, values) == [ object |-> object, values |-> values ]

\* the objects after one such statement; an array grows when an index beyond
\* its end is assigned
RunEffect(objects, e) ==
    LET old == IF e.object \in DOMAIN objects THEN objects[e.object] ELSE <<>>
        new == [ k \in DOMAIN old \cup DOMAIN e.values |->
                   IF k \in DOMAIN e.values THEN e.values[k] ELSE old[k] ]
    IN  [ n \in DOMAIN objects \cup {e.object} |->
            IF n = e.object THEN new ELSE objects[n] ]

RECURSIVE Run(_, _)
Run(objects, effects) ==
    IF effects = <<>> THEN objects
    ELSE Run(RunEffect(objects, Head(effects)), Tail(effects))

\* a computeFFT that downsamples in place, the window written over the first
\* elements of its argument; the code is not this
ComputeFFTWrites_InPlace(g, signal) ==
    LET fftSize == 1024
        downsampleFactor == Length(signal) \div fftSize
        copied == { i \in 0 .. fftSize - 1 :
                      i * downsampleFactor < Length(signal) }
        result == ComputeFFT(g, signal)
    IN  << Effect("signal",
                  [ i \in copied |-> signal[i * downsampleFactor] ]),
           Effect("fftResult", result.magnitude),
           Effect("frequencies", result.frequencies),
           Effect("returned", [ magnitude   |-> result.magnitude,
                                frequencies |-> result.frequencies ]) >>

\* computeFFT(signal): fft = new Array(fftSize).fill(0), fft[i] =
\* signal[originalIndex] where originalIndex < signal.length, then
\* fftResult[k] and frequencies[k] for every k and the object returned
ComputeFFTWrites(g, signal) ==
    LET fftSize == 1024
        downsampleFactor == Length(signal) \div fftSize
        copied == { i \in 0 .. fftSize - 1 :
                      i * downsampleFactor < Length(signal) }
        result == ComputeFFT(g, signal)
    IN  << Effect("fft", [ i \in 0 .. fftSize - 1 |-> Num(0) ]),
           Effect("fft", [ i \in copied |-> signal[i * downsampleFactor] ]),
           Effect("fftResult", result.magnitude),
           Effect("frequencies", result.frequencies),
           Effect("returned", [ magnitude   |-> result.magnitude,
                                frequencies |-> result.frequencies ]) >>

\* addNoise(signal, snrDb): signal.map(...) builds the array returned
AddNoiseWrites(signal, snrDb) ==
    << Effect("returned", AddNoise(signal, snrDb)) >>

\* detrended[i] = signal[i] - avg, avg the mean of the five samples
Detrended(signal, i) ==
    IF \A j \in {i - 4, i - 2, i, i + 2, i + 4} : IsInt(signal[j])
    THEN Ratio(Residual5(signal, i), 5)
    ELSE IF \E j \in {i - 4, i - 2, i, i + 2, i + 4} : ~IsNumber(signal[j])
    THEN NaN
    ELSE <<"detrended", i>>

\* estimateSnr(signal): detrended = new Array(signal.length), then
\* detrended[i] for 4 <= i < signal.length - 4
EstimateSnrWrites(signal) ==
    << Effect("detrended", [ i \in 0 .. Length(signal) - 1 |-> Undefined ]),
       Effect("detrended", [ i \in 4 .. Length(signal) - 5 |->
                               Detrended(signal, i) ]) >>

\* estimateBandwidth(fftData, modulationType, symbolRate): its assignments
\* are to the local numbers bandwidth, minFreq and maxFreq
EstimateBandwidthWrites(fftData, modulationType, symbolRate) == <<>>

\* analyzeSignal(signal, fftData, params): the two estimators, then the
\* object returned
AnalyzeSignalWrites(signal, fftData, params) ==
    EstimateBandwidthWrites(fftData, params.modulationType, params.symbolRate)
      \o EstimateSnrWrites(signal["realSignal"])
      \o << Effect("returned", AnalyzeSignal(signal, fftData, params)) >>

(* ------------------------------- state --------------------------------- *)

VARIABLES
    gen,      \* the SignalGenerator's fields
    params,   \* <<p>>: the params object of the last updateParameters call
    call,     \* <<c>>: the generateSignal call that followed it
    fftCall,  \* <<a>>: the argument of the last computeFFT call
    analyzeCall, \* <<c>>: the arguments of the last analyzeSignal call
    iqPending, \* the submitted forms whose audio file is still being read
    iqCall,   \* <<c>>: the form values and the audio of the last generateIQ call
    waterfallData, \* the SignalVisualizer's waterfall history, newest first
    waterfallCall, \* <<f>>: the argument of the last updateWaterfallChart call
    constellationCall, \* <<c>>: the request whose points the constellation
                       \* chart holds
    heap      \* the objects by name, and the call that left them so

vars == <<gen, params, call, fftCall, analyzeCall, iqPending, iqCall,
          waterfallData, waterfallCall, constellationCall, heap>>

\* a request as the handler gathers it from the controls
BaseParams ==
    [ carrierFreq        |-> 2000,
      symbolRate         |-> 1000,
      snr                |-> 10,
      modulationIndex    |-> 80,
      messageFreq        |-> 100,
      frequencyDeviation |-> 50 ]

\* the requests tried: the base request and its one-field variations
ParamSets ==
    {BaseParams}
    \cup { [ BaseParams EXCEPT !.symbolRate = r ] : r \in {-5, 0, 50000} }
    \cup { [ BaseParams EXCEPT !.snr = 0 ],
           [ BaseParams EXCEPT !.modulationIndex = 0 ] }

KnownTypes == {"am", "fm", "bpsk", "qpsk", "fsk", "lsb", "usb", "ssb"}

SymbolTypes == {"bpsk", "qpsk", "fsk"}

ModulationTypes == KnownTypes \cup {"xyz"}

\* Math.random() results tried, in units of 1/RandUnit: one in each quarter
\* of [0, 1) for the dibits, 1/2 and 3/4 for the bits
UnitDraws(modulationType) ==
    IF modulationType = "qpsk" THEN {0, 3, 4, 6} ELSE {4, 6}

\* only the symbol-based kinds draw symbols
DrawPatterns(modulationType) ==
    IF modulationType \in SymbolTypes
    THEN [ 0 .. DrawPeriod - 1 -> UnitDraws(modulationType) ]
    ELSE { [ k \in 0 .. DrawPeriod - 1 |-> 0 ] }

\* the arrays computeFFT is tried on: length len, element i = pattern[i % 2]
FftLengths == {0, 1, 1023, 1024, 1025, 2048, 44100}

FftValues == { Num(0), Num(1), NaN, Undefined }

\* the realSignal of the signal a request generated
GeneratedSignal(d) == GenerateSignal(d.modulationType, d.generator, d.draws)

FftArray(a) ==
    IF "generator" \in DOMAIN a THEN GeneratedSignal(a)["realSignal"]
    ELSE IF "tone" \in DOMAIN a
    THEN [ i \in 0 .. a.len - 1 |-> Tone(a.tone, i) ]
    ELSE [ i \in 0 .. a.len - 1 |-> a.pattern[i % 2] ]

\* the bins of the sinusoids passed to computeFFT
ToneBins == {1, 10, 256}

FftArrays ==
    [ len : FftLengths, pattern : [ 0 .. 1 -> FftValues ] ]
      \cup [ len : FftLengths, tone : ToneBins ]

\* a JavaScript array with the elements of a sequence
Arr(seq) == [ i \in 0 .. Len(seq) - 1 |-> seq[i + 1] ]

\* the params objects analyzeSignal is tried on: the request with its kind
AnalyzeParams ==
    { [ modulationType     |-> t,
        carrierFreq        |-> p.carrierFreq,
        symbolRate         |-> p.symbolRate,
        snr                |-> p.snr,
        modulationIndex    |-> p.modulationIndex,
        messageFreq        |-> p.messageFreq,
        frequencyDeviation |-> p.frequencyDeviation ] :
      t \in ModulationTypes,
      p \in { BaseParams, [ BaseParams EXCEPT !.symbolRate = 0 ] } }

\* magnitude spectra of eight bins: flat, single and double lines, a bin 0
\* exactly at the threshold, a NaN
Magnitudes ==
    { <<0, 0, 0, 0, 0, 0, 0, 0>>,    <<5, 5, 5, 5, 5, 5, 5, 5>>,
      <<20, 1, 0, 0, 0, 0, 0, 0>>,   <<20, 20, 20, 0, 0, 0, 0, 0>>,
      <<0, 20, 0, 0, 0, 0, 0, 0>>,   <<0, 20, 20, 0, 0, 0, 0, 0>>,
      <<2, 20, 3, 0, 0, 0, 0, 0>>,   <<0, 0, 0, 0, 0, 20, 20, 0>>,
      <<20, 0, 0, 0, 0, 0, 0, 20>>,  <<3, 20, 20, 20, 0, 0, 0, 0>> }

\* the frequency labels of the eight bins, 100 Hz apart
Labels == [ k \in 0 .. 7 |-> Num(100 * k) ]

Spectra ==
    { NoFftData,
      FftDataOf(<<>>, <<>>),
      FftDataOf([ k \in 0 .. 7 |-> IF k = 3 THEN NaN ELSE Num(1) ], Labels) }
    \cup { FftDataOf([ k \in 0 .. 7 |-> Num(m[k + 1]) ], Labels) :
             m \in Magnitudes }

\* the realSignal arrays analyzeSignal is tried on: all zero, all identical,
\* one large outlier
AnalyzeSignals ==
    { [ i \in 0 .. 11 |-> Num(0) ],
      [ i \in 0 .. 11 |-> Num(7) ],
      [ i \in 0 .. 11 |-> IF i = 6 THEN Num(1000) ELSE Num(1) ] }

\* the form values and audio files generateIQ is tried on
IqMods == {"AM", "FM", "BPSK", "QPSK", "FSK"}

IqCarriers == {1, 4}

IqRates == {8, 100}

IqSnrs == {0, 10, 20}

IqAudio ==
    { NoAudio,
      AudioOf(<<>>),
      AudioOf(Arr(<<Num(1)>>)),
      AudioOf(Arr(<<Num(1), Num(-1), Num(0)>>)),
      AudioOf(Arr(<<Num(2), Num(0), Num(1), Num(3), Num(-1)>>)) }

\* the file chosen in the form: none, one that decodes to an array of
\* samples, or one that decodeAudioData rejects
NoFile == [ decodes |-> TRUE, chosen |-> FALSE, audioData |-> NoAudio ]

IqFiles ==
    { NoFile, [ decodes |-> FALSE, chosen |-> TRUE, audioData |-> NoAudio ] }
    \cup { [ decodes |-> TRUE, chosen |-> TRUE, audioData |-> a ] :
             a \in IqAudio \ {NoAudio} }

\* what handleForm reads from the form
IqRequests ==
    [ mod : IqMods, carrier : IqCarriers, rate : IqRates, snr : IqSnrs,
      file : IqFiles ]

\* the forms submitted while another one waits or after the first call
IqLaterRequests ==
    { [ mod |-> "FSK", carrier |-> 4, rate |-> 100, snr |-> 20,
        file |-> NoFile ],
      [ mod |-> "AM", carrier |-> 1, rate |-> 8, snr |-> 0,
        file |-> [ decodes |-> TRUE, chosen |-> TRUE,
                   audioData |-> AudioOf(Arr(<<Num(1), Num(-1), Num(0)>>)) ] ],
      [ mod |-> "BPSK", carrier |-> 1, rate |-> 8, snr |-> 10,
        file |-> [ decodes |-> FALSE, chosen |-> TRUE,
                   audioData |-> NoAudio ] ] }

\* no objects yet
NoHeap == [ call |-> "none", objects |-> <<>> ]

\* the objects the five methods are given
ArgNames == {"this", "signal", "fftData", "params"}

HeapGenerators ==
    { NewGenerator,
      UpdateParameters(NewGenerator, BaseParams),
      UpdateParameters(NewGenerator, [ BaseParams EXCEPT !.snr = 0 ]) }

HeapSpectra ==
    { NoFftData,
      FftDataOf(<<>>, <<>>),
      FftDataOf([ k \in 0 .. 7 |-> IF k = 3 THEN NaN ELSE Num(1) ], Labels),
      FftDataOf(Arr(<<Num(0), Num(20), Num(20), Num(0), Num(0), Num(0),
                      Num(0), Num(0)>>), Labels) }

Heaps ==
    { [ call    |-> "none",
        objects |-> [ n \in ArgNames |->
                        CASE n = "this"    -> g
                          [] n = "signal"  -> signal
                          [] n = "fftData" -> fftData
                          [] n = "params"  -> p ] ] :
      g \in HeapGenerators, signal \in AnalyzeSignals,
      fftData \in HeapSpectra, p \in AnalyzeParams }

\* the objects a call finds: those it is given; what earlier calls created
\* is out of reach
Given(objects) == [ n \in ArgNames |-> objects[n] ]

Init ==
    /\ gen = NewGenerator
    /\ params = <<>>
    /\ call = <<>>
    /\ fftCall = <<>>
    /\ analyzeCall = <<>>
    /\ iqPending = EmptyBag
    /\ iqCall = <<>>
    /\ waterfallData = <<>>
    /\ waterfallCall = <<>>
    /\ constellationCall = <<>>
    /\ heap = NoHeap

\* a generator, a realSignal array, an fftData and a params object, before
\* any of the estimation and analysis methods is called on them
InitHeap ==
    /\ gen = NewGenerator
    /\ params = <<>>
    /\ call = <<>>
    /\ fftCall = <<>>
    /\ analyzeCall = <<>>
    /\ iqPending = EmptyBag
    /\ iqCall = <<>>
    /\ waterfallData = <<>>
    /\ waterfallCall = <<>>
    /\ constellationCall = <<>>
    /\ heap \in Heaps

DoUpdateParameters ==
    \E p \in ParamSets :
        /\ gen' = UpdateParameters(gen, p)
        /\ params' = <<p>>
        /\ call' = <<>>
        /\ UNCHANGED <<fftCall, analyzeCall, iqPending, iqCall,
                       waterfallData, waterfallCall, constellationCall,
                       heap>>

DoGenerateSignal ==
    \E modulationType \in ModulationTypes :
        \E draws \in DrawPatterns(modulationType) :
            /\ call' = << [ modulationType |-> modulationType,
                            draws |-> draws ] >>
            /\ UNCHANGED <<gen, params, fftCall, analyzeCall, iqPending, iqCall,
                           waterfallData, waterfallCall, constellationCall,
                       heap>>

DoComputeFFT ==
    \E a \in FftArrays :
        /\ fftCall' = <<a>>
        /\ UNCHANGED <<gen, params, call, analyzeCall, iqPending, iqCall,
                       waterfallData, waterfallCall, constellationCall,
                       heap>>

DoAnalyzeSignal ==
    \E p \in AnalyzeParams, fftData \in Spectra, realSignal \in AnalyzeSignals :
        /\ analyzeCall' = << [ params     |-> p,
                               fftData    |-> fftData,
                               realSignal |-> realSignal ] >>
        /\ UNCHANGED <<gen, params, call, fftCall, iqPending, iqCall,
                       waterfallData, waterfallCall, constellationCall,
                       heap>>

\* handleForm up to its await: the form is read, then readAudioFile(file)
\* returns a promise and the handler waits; other handlers run meanwhile.
\* Any request is tried as the first one; the forms submitted later are
\* IqLaterRequests
DoHandleForm ==
    \E r \in IqRequests :
        /\ BagCardinality(iqPending) < MaxPending
        /\ \/ iqPending = EmptyBag /\ iqCall = <<>>
           \/ r \in IqLaterRequests
        /\ iqPending' = iqPending (+) SetToBag({r})
        /\ UNCHANGED <<gen, params, call, fftCall, analyzeCall, iqCall,
                       waterfallData, waterfallCall, constellationCall,
                       heap>>

\* handleForm from its await on, the promise fulfilled: one second of
\* samples, samples = rate * 1, generated from the values read at the submit;
\* the plots and the analysis text are replaced
DoGenerateIQ ==
    \E r \in BagToSet(iqPending) :
        /\ r.file.decodes
        /\ iqPending' = iqPending (-) SetToBag({r})
        /\ iqCall' = << [ mod       |-> r.mod,
                          carrier   |-> r.carrier,
                          rate      |-> r.rate,
                          snr       |-> r.snr,
                          samples   |-> r.rate * 1,
                          audioData |-> ReadAudioFile(r.file) ] >>
        /\ UNCHANGED <<gen, params, call, fftCall, analyzeCall,
                       waterfallData, waterfallCall, constellationCall,
                       heap>>

\* handleForm from its await on, the promise rejected: the handler ends with
\* the rejection, generateIQ is not called and the page keeps what it showed
DoRejectAudio ==
    \E r \in BagToSet(iqPending) :
        /\ ~r.file.decodes
        /\ iqPending' = iqPending (-) SetToBag({r})
        /\ UNCHANGED <<gen, params, call, fftCall, analyzeCall, iqCall,
                       waterfallData, waterfallCall, constellationCall,
                       heap>>

\* the params object the handler gathers from the controls
PageParams(p, modulationType) ==
    [ modulationType     |-> modulationType,
      carrierFreq        |-> p.carrierFreq,
      symbolRate         |-> p.symbolRate,
      snr                |-> p.snr,
      modulationIndex    |-> p.modulationIndex,
      messageFreq        |-> p.messageFreq,
      frequencyDeviation |-> p.frequencyDeviation ]

\* the controls at page load and at the clicks on Generate: the base request
\* with four kinds and an unknown one, a symbol rate above the sample rate,
\* a symbol rate 0 after it or at the start
BaseRequest == [ p |-> BaseParams, modulationType |-> "am" ]

PageRequests ==
    { BaseRequest,
      [ p |-> BaseParams, modulationType |-> "lsb" ],
      [ p |-> BaseParams, modulationType |-> "bpsk" ],
      [ p |-> BaseParams, modulationType |-> "xyz" ],
      [ p |-> [ BaseParams EXCEPT !.symbolRate = 50000 ],
        modulationType |-> "qpsk" ],
      [ p |-> [ BaseParams EXCEPT !.symbolRate = 0 ],
        modulationType |-> "bpsk" ] }

\* the symbols drawn in a page request: every draw the same
PageDraws(modulationType) ==
    IF modulationType \in {"bpsk", "fsk"}
    THEN { [ k \in 0 .. DrawPeriod - 1 |-> u ] : u \in UnitDraws(modulationType) }
    ELSE { [ k \in 0 .. DrawPeriod - 1 |-> 0 ] }

\* generateAndDisplaySignal, at page load and at every click on Generate:
\* updateParameters, generateSignal, computeFFT of the real signal,
\* updateCharts (time, frequency, constellation, waterfall), analyzeSignal
\* and the four result texts. An exception in generateSignal ends the handler
\* with the parameters updated and nothing else changed. The time chart, the
\* frequency chart and the result texts are replaced at every request that
\* gets so far: they are those of the last computeFFT and analyzeSignal
\* calls; the constellation chart keeps its points when the signal has none.
GenerateAndDisplaySignal ==
    \E r \in PageRequests :
      \E draws \in PageDraws(r.modulationType) :
        LET p == r.p
            modulationType == r.modulationType
            q == PageParams(p, modulationType)
            g == UpdateParameters(gen, q)
            d == [ generator |-> g, modulationType |-> modulationType,
                   draws |-> draws ]
            signal == GeneratedSignal(d)
            fftData == ComputeFFT(g, signal["realSignal"])
        IN  /\ \/ Len(waterfallData) < MaxVariedLines
               \/ r = BaseRequest
            /\ gen' = g
            /\ params' = <<q>>
            /\ call' = << [ modulationType |-> modulationType,
                            draws |-> draws ] >>
            /\ IF signal["threw"] # "none"
               THEN UNCHANGED <<fftCall, analyzeCall, waterfallData,
                                waterfallCall, constellationCall,
                       heap>>
               ELSE /\ fftCall' = <<d>>
                    /\ constellationCall' =
                         IF signal["constellation"].isNull
                         THEN constellationCall ELSE <<d>>
                    /\ waterfallData' =
                         UpdateWaterfallChart(waterfallData, fftData)
                    /\ waterfallCall' =
                         << FftDataOf(fftData.magnitude, fftData.frequencies) >>
                    /\ analyzeCall' = << [ params |-> q, generated |-> d ] >>
            /\ UNCHANGED <<iqPending, iqCall, heap>>

\* this.computeFFT(signal) on the generator
HeapComputeFFT ==
    /\ heap' = [ call    |-> "computeFFT",
                 objects |-> Run(Given(heap.objects),
                                 ComputeFFTWrites(heap.objects["this"],
                                                  heap.objects["signal"])) ]
    /\ UNCHANGED <<gen, params, call, fftCall, analyzeCall, iqPending, iqCall,
                   waterfallData, waterfallCall, constellationCall>>

\* this.addNoise(signal, this.snr) on the generator
HeapAddNoise ==
    /\ heap' = [ call    |-> "addNoise",
                 objects |-> Run(Given(heap.objects),
                                 AddNoiseWrites(heap.objects["signal"],
                                                heap.objects["this"].snr)) ]
    /\ UNCHANGED <<gen, params, call, fftCall, analyzeCall, iqPending, iqCall,
                   waterfallData, waterfallCall, constellationCall>>

HeapEstimateSnr ==
    /\ heap' = [ call    |-> "estimateSnr",
                 objects |-> Run(Given(heap.objects),
                                 EstimateSnrWrites(heap.objects["signal"])) ]
    /\ UNCHANGED <<gen, params, call, fftCall, analyzeCall, iqPending, iqCall,
                   waterfallData, waterfallCall, constellationCall>>

HeapEstimateBandwidth ==
    /\ heap' = [ call    |-> "estimateBandwidth",
                 objects |-> Run(Given(heap.objects),
                                 EstimateBandwidthWrites(
                                     heap.objects["fftData"],
                                     heap.objects["params"].modulationType,
                                     heap.objects["params"].symbolRate)) ]
    /\ UNCHANGED <<gen, params, call, fftCall, analyzeCall, iqPending, iqCall,
                   waterfallData, waterfallCall, constellationCall>>

\* analyzeSignal(signal, fftData, params), signal.realSignal the array
HeapAnalyzeSignal ==
    /\ heap' = [ call    |-> "analyzeSignal",
                 objects |-> Run(Given(heap.objects),
                                 AnalyzeSignalWrites(
                                     [ realSignal |-> heap.objects["signal"] ],
                                     heap.objects["fftData"],
                                     heap.objects["params"])) ]
    /\ UNCHANGED <<gen, params, call, fftCall, analyzeCall, iqPending, iqCall,
                   waterfallData, waterfallCall, constellationCall>>

Next == GenerateAndDisplaySignal

\* the page: the state after the load listener created the generator, the
\* visualizer with its charts and the analyzer, then one request after another
Spec == Init /\ [][Next]_vars

\* the generator's two public steps in any order
SpecGenerator == Init /\ [][DoUpdateParameters \/ DoGenerateSignal]_vars

\* the estimation and analysis methods called in any order on the same
\* generator and arguments
SpecHeap ==
    InitHeap /\ [][HeapComputeFFT \/ HeapAddNoise \/ HeapEstimateSnr
                     \/ HeapEstimateBandwidth \/ HeapAnalyzeSignal]_vars

\* computeFFT as a function of its argument, on a new generator
SpecFFT == Init /\ [][DoComputeFFT]_vars

\* analyzeSignal as a function of its arguments
SpecAnalyzer == Init /\ [][DoAnalyzeSignal]_vars

\* the form page: submits, each resumed or rejected when its file was read
SpecIQ == Init /\ [][DoHandleForm \/ DoGenerateIQ \/ DoRejectAudio]_vars

\* the object the last generateSignal call returned
Signal == GenerateSignal(call[1].modulationType, gen, call[1].draws)

\* the object the last computeFFT call returned
FftData == ComputeFFT(gen, FftArray(fftCall[1]))

\* the signal and the fftData of an analyzeSignal call
AnalyzedSignal(c) ==
    IF "generated" \in DOMAIN c THEN GeneratedSignal(c.generated)
    ELSE [ realSignal |-> c.realSignal ]

AnalyzedFftData(c) ==
    IF "generated" \in DOMAIN c
    THEN LET f == ComputeFFT(c.generated.generator,
                             GeneratedSignal(c.generated)["realSignal"])
         IN  FftDataOf(f.magnitude, f.frequencies)
    ELSE c.fftData

\* the object the last analyzeSignal call returned: the result texts shown
Analysis ==
    AnalyzeSignal(AnalyzedSignal(analyzeCall[1]),
                  AnalyzedFftData(analyzeCall[1]), analyzeCall[1].params)

\* the points of the time, frequency and constellation charts
TimeChartData == UpdateTimeChart(GeneratedSignal(fftCall[1]))

FrequencyChartData == UpdateFrequencyChart(FftData)

ConstellationChartData ==
    GeneratedSignal(constellationCall[1])["constellation"].points

\* the bandwidth the last analyzeSignal call estimated
Bandwidth ==
    EstimateBandwidth(analyzeCall[1].fftData,
                      analyzeCall[1].params.modulationType,
                      analyzeCall[1].params.symbolRate)

\* the object the last generateIQ call returned
IqData ==
    GenerateIQ(iqCall[1].mod, iqCall[1].carrier, iqCall[1].rate,
               iqCall[1].snr, iqCall[1].samples, iqCall[1].audioData)

\* the plots the form page shows
Plots == UpdatePlots(IqData)

\* the text the form page shows in analysisOutput
AnalysisOutput ==
    AnalysisText([ mod |-> iqCall[1].mod, carrier |-> iqCall[1].carrier,
                   rate |-> iqCall[1].rate, snr |-> iqCall[1].snr ])

\* the SNR the last analyzeSignal call estimated
MeasuredSnr == EstimateSnr(analyzeCall[1].realSignal)

(* ------------------------------ claims --------------------------------- *)

Returns(s) == s["threw"] = "none"

\* the value of a Num or Ratio term as numerator and denominator
Numerator(v) == v[2]

Denominator(v) == IF IsInt(v) THEN 1 ELSE v[3]

\* a < b for Num and Ratio terms: by integer parts, then by remainders
Less(a, b) ==
    LET qa == Numerator(a) \div Denominator(a)
        qb == Numerator(b) \div Denominator(b)
    IN  \/ qa < qb
        \/ /\ qa = qb
           /\ (Numerator(a) % Denominator(a)) * Denominator(b)
                < (Numerator(b) % Denominator(b)) * Denominator(a)

\* 2 * v * v for an integer or a multiple of 1/sqrt(2)
TwiceSquare(v) ==
    IF v[1] = "1/sqrt2" THEN v[2] * v[2] ELSE 2 * v[2] * v[2]

\* C1: for each of the eight kinds and after any sequence of updateParameters
\* calls, the time, realSignal and imagSignal arrays of the object
\* generateSignal returns all have length numSamples = sampleRate x duration
\* = 44100.
C1_SignalLengths ==
    call # <<>> /\ call[1].modulationType \in KnownTypes =>
        LET s == Signal
        IN  Returns(s) =>
              /\ gen.numSamples = gen.sampleRate * gen.duration
              /\ gen.numSamples = 44100
              /\ Length(s["time"]) = gen.numSamples
              /\ Length(s["realSignal"]) = gen.numSamples
              /\ Length(s["imagSignal"]) = gen.numSamples

C1_Witness ==
    /\ params # <<>> /\ call # <<>>
    /\ call[1].modulationType = "lsb"
    /\ Returns(Signal)
    /\ Length(Signal["imagSignal"]) = 44100

\* C2: generateSignal with a kind that is not one of the eight raises
\* InvalidParameter and returns no signal.
C2_UnknownKindRaises ==
    call # <<>> /\ call[1].modulationType \notin KnownTypes =>
        Signal["threw"] = "InvalidParameter"

\* C3: for bpsk, qpsk and fsk and every symbolRate > 0, a returned
\* constellation has exactly floor(numSamples / floor(sampleRate / symbolRate))
\* points, as many as symbols were drawn.
C3_ConstellationLength ==
    /\ call # <<>>
    /\ call[1].modulationType \in SymbolTypes
    /\ gen.symbolRate > 0
    => LET s == Signal
       IN  Returns(s) =>
             /\ ~s["constellation"]["isNull"]
             /\ Length(s["constellation"]["points"])
                  = FloorDiv(gen.numSamples,
                             FloorDiv(gen.sampleRate, gen.symbolRate))

C3_Witness ==
    /\ call # <<>>
    /\ call[1].modulationType = "qpsk"
    /\ gen.symbolRate = 1000
    /\ Returns(Signal)
    /\ Length(Signal["constellation"]["points"]) = 1002

\* C4: for am, fm, bpsk and fsk every element of the returned imagSignal is
\* exactly 0, whatever the parameters and the draws.
C4_ImagAllZero ==
    call # <<>> /\ call[1].modulationType \in {"am", "fm", "bpsk", "fsk"} =>
        LET s == Signal
        IN  Returns(s) =>
              \A i \in 0 .. gen.numSamples - 1 : s["imagSignal"][i] = Num(0)

C4_Witness ==
    /\ params # <<>> /\ call # <<>>
    /\ call[1].modulationType = "fsk"
    /\ gen.symbolRate < 0
    /\ Returns(Signal)
    /\ Signal["imagSignal"][gen.numSamples - 1] = Num(0)

\* C5: the constellation of a returned signal is a (non-null) array exactly
\* when the kind is bpsk, qpsk or fsk, and null for am, fm, lsb, usb and ssb.
C5_ConstellationPresence ==
    call # <<>> /\ call[1].modulationType \in KnownTypes =>
        LET s == Signal
        IN  Returns(s) =>
              (~s["constellation"]["isNull"]
                 <=> call[1].modulationType \in SymbolTypes)

C5_Witness ==
    /\ call # <<>>
    /\ call[1].modulationType = "ssb"
    /\ Returns(Signal)
    /\ Signal["constellation"]["isNull"]

\* C6: BPSK with sampleRate 44100, duration 1 and symbolRate 100 uses
\* numSamples = 44100 and samplesPerSymbol = 441 and yields exactly 100
\* constellation points; in every BPSK generation each constellation point
\* has x in {-1, 1} and y = 0.
C6_BpskScenario ==
    call # <<>> /\ call[1].modulationType = "bpsk" =>
        LET s == Signal
        IN  Returns(s) =>
              /\ gen.symbolRate = 100 =>
                   /\ gen.numSamples = 44100
                   /\ SamplesPerSymbol(gen) = 441
                   /\ Length(s["constellation"]["points"]) = 100
              /\ \A k \in DOMAIN s["constellation"]["points"] :
                   /\ s["constellation"]["points"][k].x \in {Num(1), Num(-1)}
                   /\ s["constellation"]["points"][k].y = Num(0)

\* C7: every QPSK constellation point is one of the four points
\* (+-1/sqrt2, +-1/sqrt2), so that x^2 + y^2 = 1, whatever the dibit draws.
C7_QpskUnitCircle ==
    call # <<>> /\ call[1].modulationType = "qpsk" =>
        LET s == Signal
        IN  Returns(s) =>
              \A k \in DOMAIN s["constellation"]["points"] :
                LET point == s["constellation"]["points"][k]
                IN  /\ point.x \in {SqrtHalf(1), SqrtHalf(-1)}
                    /\ point.y \in {SqrtHalf(1), SqrtHalf(-1)}
                    /\ TwiceSquare(point.x) + TwiceSquare(point.y) = 2

C7_Witness ==
    /\ call # <<>>
    /\ call[1].modulationType = "qpsk"
    /\ Returns(Signal)
    /\ Length(Signal["constellation"]["points"]) >= 2
    /\ Signal["constellation"]["points"][1]
         = [ x |-> SqrtHalf(-1), y |-> SqrtHalf(-1) ]
    /\ Signal["constellation"]["points"][2]
         = [ x |-> SqrtHalf(1), y |-> SqrtHalf(-1) ]

\* C8: when symbolRate <= 0 is supplied for bpsk, qpsk or fsk, generation
\* fails with InvalidParameter; a request ends either in that error or in a
\* full valid signal, never in one with undefined or NaN samples, undefined
\* constellation points or an empty constellation.
C8_InvalidSymbolRateRaises ==
    /\ params # <<>> /\ call # <<>>
    /\ call[1].modulationType \in SymbolTypes
    => LET s == Signal
       IN  /\ params[1].symbolRate <= 0 => s["threw"] = "InvalidParameter"
           /\ s["threw"] \in {"none", "InvalidParameter"}
           /\ Returns(s) =>
                /\ Length(s["constellation"]["points"]) > 0
                /\ \A k \in DOMAIN s["constellation"]["points"] :
                     IsNumber(s["constellation"]["points"][k].x)
                /\ \A i \in 0 .. gen.numSamples - 1 :
                     IsNumber(s["realSignal"][i])

\* the same arrays, element by element
SameArray(a, b) ==
    /\ Length(a) = Length(b)
    /\ \A i \in 0 .. Length(a) - 1 : a[i] = b[i]

\* the same outcome: the same exception, or signals with the same elements
SameSignal(s, t) ==
    /\ s["threw"] = t["threw"]
    /\ Returns(s) =>
         /\ SameArray(s["time"], t["time"])
         /\ SameArray(s["realSignal"], t["realSignal"])
         /\ SameArray(s["imagSignal"], t["imagSignal"])
         /\ s["constellation"]["isNull"] = t["constellation"]["isNull"]
         /\ Len(s["constellation"]["points"]) = Len(t["constellation"]["points"])
         /\ \A k \in DOMAIN s["constellation"]["points"] :
              s["constellation"]["points"][k] = t["constellation"]["points"][k]

\* C9: nothing persists across requests: the signal of a request (an
\* updateParameters with a parameter set, then generateSignal) is the one the
\* same request with the same draws produces on a new generator, whatever
\* requests came before.
C9_NoPersistence ==
    params # <<>> /\ call # <<>> =>
        SameSignal(Signal,
                   GenerateSignal(call[1].modulationType,
                                  UpdateParameters(NewGenerator, params[1]),
                                  call[1].draws))

\* C10: for an input of any length computeFFT returns magnitude and
\* frequencies arrays of length fftSize/2 = 512 each, with frequencies[k] =
\* k x sampleRate / fftSize, strictly increasing.
C10_FftShape ==
    fftCall # <<>> =>
        LET f == FftData
        IN  /\ Length(f["magnitude"]) = 512
            /\ Length(f["frequencies"]) = 512
            /\ \A k \in 0 .. 511 :
                 /\ f["frequencies"][k] = Ratio(k * 44100, 1024)
                 /\ k > 0 => Less(f["frequencies"][k - 1], f["frequencies"][k])

C10_Witness ==
    /\ fftCall # <<>>
    /\ fftCall[1].len = 1
    /\ Length(FftData["frequencies"]) = 512
    /\ FftData["frequencies"][511] = Ratio(511 * 44100, 1024)

\* C11: when the input of computeFFT has fewer than fftSize = 1024 samples the
\* transformed window is the input followed by zeros: every window position at
\* or beyond the input length holds 0, and the positions before it hold the
\* input.
C11_ZeroPadded ==
    fftCall # <<>> /\ fftCall[1].len < 1024 =>
        LET signal == FftArray(fftCall[1])
            fft == FftWindow(signal, 1024)
        IN  \A i \in 0 .. 1023 :
              fft[i] = IF i < fftCall[1].len THEN signal[i] ELSE Num(0)

\* a value of the closed range [0, 30]
SnrInRange(v) == v[1] = "snrDb" \/ (IsInt(v) /\ 0 <= v[2] /\ v[2] <= 30)

\* C12: estimateSnr returns a value in [0, 30], never NaN, for the realSignal
\* of every signal generateSignal returns for any of the eight kinds (here:
\* with a positive symbol rate in force).
C12_SnrClamped ==
    /\ call # <<>>
    /\ call[1].modulationType \in KnownTypes
    /\ gen.symbolRate > 0
    =>
        LET s == Signal
        IN  Returns(s) => SnrInRange(EstimateSnr(s["realSignal"]))

\* the frequency labels of the bins above the threshold
LabelsAbove(fftData) ==
    { fftData.frequencies[i][2] : i \in AboveThreshold(fftData.magnitude) }

\* C13: the bandwidth estimateBandwidth measures is maxF - minF, the largest
\* and the smallest frequency among exactly the bins whose magnitude is above
\* peakMagnitude / 10; a bin at or below the threshold, bin 0 included, has no
\* influence.
C13_SpanOfBinsAboveThreshold ==
    /\ analyzeCall # <<>>
    /\ ~analyzeCall[1].fftData.isNull
    /\ AboveThreshold(analyzeCall[1].fftData.magnitude) # {}
    => LET above == LabelsAbove(analyzeCall[1].fftData)
           minF == CHOOSE f \in above : \A h \in above : f <= h
           maxF == CHOOSE f \in above : \A h \in above : h <= f
       IN  MeasuredBandwidth(analyzeCall[1].fftData) = Num(maxF - minF)

\* C14: estimateBandwidth returns the measured span exactly when that span is
\* positive and less than half of the top frequency; otherwise (no spectrum,
\* all-zero, all-equal or NaN magnitudes, a span of zero or too wide) it
\* returns the per-kind theoretical bandwidth.
C14_MeasuredOrTheoretical ==
    analyzeCall # <<>> =>
        LET fftData == analyzeCall[1].fftData
            p == analyzeCall[1].params
            span == MeasuredBandwidth(fftData)
            theoretical ==
                Num(TheoreticalBandwidth(p.modulationType, p.symbolRate))
            reasonable ==
                /\ ~fftData.isNull
                /\ IsInt(span)
                /\ 0 < span[2]
                /\ 2 * span[2] < fftData.frequencies[7][2]
            flat == \A i, j \in DOMAIN fftData.magnitude :
                      fftData.magnitude[i] = fftData.magnitude[j]
            notANumber == \E i \in DOMAIN fftData.magnitude :
                            fftData.magnitude[i] = NaN
        IN  /\ Bandwidth = IF reasonable THEN span ELSE theoretical
            /\ fftData.isNull \/ flat \/ notANumber => Bandwidth = theoretical

C14_Witness ==
    /\ analyzeCall # <<>>
    /\ analyzeCall[1].params.modulationType = "am"
    /\ analyzeCall[1].fftData.magnitude = Arr(<<Num(20), Num(20), Num(20),
                                               Num(0), Num(0), Num(0),
                                               Num(0), Num(0)>>)
    /\ Bandwidth = Num(200)
    /\ TheoreticalBandwidth("am", analyzeCall[1].params.symbolRate) = 2000

\* C15: the theoretical bandwidth is, for the parameters of the request, AM
\* 2 x messageFreq, FM 2 x (frequencyDeviation + messageFreq), BPSK and QPSK
\* symbolRate, FSK 2 x frequencyDeviation + symbolRate, LSB/USB/SSB
\* messageFreq.
C15_TheoreticalBandwidth ==
    analyzeCall # <<>> /\ analyzeCall[1].params.modulationType \in KnownTypes =>
        LET p == analyzeCall[1].params
        IN  TheoreticalBandwidth(p.modulationType, p.symbolRate)
              = CASE p.modulationType = "am" -> 2 * p.messageFreq
                  [] p.modulationType = "fm" ->
                       2 * (p.frequencyDeviation + p.messageFreq)
                  [] p.modulationType \in {"bpsk", "qpsk"} -> p.symbolRate
                  [] p.modulationType = "fsk" ->
                       2 * p.frequencyDeviation + p.symbolRate
                  [] p.modulationType \in {"lsb", "usb", "ssb"} -> p.messageFreq

\* C16: for bpsk, qpsk and fsk with numSamples not a multiple of
\* samplesPerSymbol, every sample at an index >= numSymbols x samplesPerSymbol
\* carries the last drawn symbol (symbol numSymbols - 1).
C16_TrailingSamplesClamp ==
    /\ call # <<>>
    /\ call[1].modulationType \in SymbolTypes
    /\ gen.symbolRate > 0
    /\ gen.symbolRate <= gen.sampleRate
    /\ gen.numSamples % SamplesPerSymbol(gen) # 0
    => LET s == Signal
           last == Draw(call[1].draws, NumSymbols(gen) - 1)
           noise(i) == Mul(NoiseAmplitude(<<"meansquare">>, gen.snr), Gauss(i))
           clamped(i) ==
               CASE call[1].modulationType = "bpsk" ->
                      Add(Mul(BpskBit(last), Cos(gen.carrierFreq, i)), noise(i))
                 [] call[1].modulationType = "qpsk" ->
                      Add(Sub(Mul(QpskSymbol(last).i, Cos(gen.carrierFreq, i)),
                              Mul(QpskSymbol(last).q, Sin(gen.carrierFreq, i))),
                          noise(i))
                 [] call[1].modulationType = "fsk" ->
                      Add(Cos(IF FskBit(last) = Num(1)
                              THEN gen.carrierFreq + gen.frequencyDeviation
                              ELSE gen.carrierFreq - gen.frequencyDeviation, i),
                          noise(i))
       IN  \A i \in NumSymbols(gen) * SamplesPerSymbol(gen)
                      .. gen.numSamples - 1 :
             s["realSignal"][i] = clamped(i)

\* C17: a sinusoid at the centre of bin b, passed to computeFFT as a signal of
\* any length, gives a magnitude spectrum whose single largest value is at bin
\* b = round(f x fftSize / sampleRate).
C17_PeakAtToneBin ==
    fftCall # <<>> /\ "tone" \in DOMAIN fftCall[1] =>
        LET magnitude == FftData["magnitude"]
            b == fftCall[1].tone
        IN  \A k \in 0 .. 511 : k # b => Less(magnitude[k], magnitude[b])

\* the mean square of the AM samples amp * cos(2 pi carrier n / rate) over one
\* second, for a constant amp and 2 * carrier not a multiple of rate:
\* amp^2 / 2
MeanSquareAM(amp) == Ratio(amp[2] * amp[2], 2)

\* C18: the standard deviation of the added noise is derived from the measured
\* mean-square power of the signal before the noise: noiseAmplitude^2 x
\* 10^(snr/10) = signalPower. Stated for generateIQ, kind AM, with no audio or
\* a constant audio sample, where the samples before the noise are
\* amp * cos(...) with a constant amp.
C18_NoiseFromMeasuredPower ==
    /\ iqCall # <<>>
    /\ iqCall[1].mod = "AM"
    /\ (2 * iqCall[1].carrier) % iqCall[1].rate # 0
    /\ Length(iqCall[1].audioData.data) <= 1
    => NoiseStd(iqCall[1].snr)
         = NoiseAmplitude(
             MeanSquareAM(IqAmp("AM", AudioSample(iqCall[1].audioData, 0))),
             iqCall[1].snr)

\* C19: generateSignal returns a signal for every request with carrierFreq > 0
\* and symbolRate > 0, symbol rates above the sample rate included; no such
\* request ends in an exception.
C19_ValidRequestReturns ==
    /\ params # <<>> /\ call # <<>>
    /\ call[1].modulationType \in KnownTypes
    /\ params[1].carrierFreq > 0
    /\ params[1].symbolRate > 0
    => Returns(Signal)

\* C20: when an audio array is supplied that is shorter than the number of
\* samples, sample n is generated from audio element n mod (audio length): the
\* index read is within the array and the audio repeats cyclically.
C20_AudioIndexedModuloLength ==
    /\ iqCall # <<>>
    /\ ~iqCall[1].audioData.isNull
    /\ Length(iqCall[1].audioData.data) >= 1
    /\ Length(iqCall[1].audioData.data) < iqCall[1].samples
    => LET c == iqCall[1]
           data == c.audioData.data
           len == Length(data)
           d == IqData
       IN  \A n \in 0 .. c.samples - 1 :
             /\ n % len \in DOMAIN data
             /\ AudioSample(c.audioData, n) = data[n % len]
             /\ n >= len =>
                  AudioSample(c.audioData, n) = AudioSample(c.audioData, n - len)
             /\ d["i"][n]
                  = IqI(c.mod, c.carrier, c.rate, c.snr, data[n % len], n)
             /\ d["q"][n]
                  = IqQ(c.mod, c.carrier, c.rate, c.snr, data[n % len], n)

C20_Witness ==
    /\ iqCall # <<>>
    /\ iqCall[1].mod = "AM"
    /\ iqCall[1].samples = 8
    /\ iqCall[1].audioData = AudioOf(Arr(<<Num(1), Num(-1), Num(0)>>))
    /\ AudioSample(iqCall[1].audioData, 7) = Num(-1)
    /\ IqData["i"][7] = IqI("AM", iqCall[1].carrier, 8, iqCall[1].snr, Num(-1), 7)
    /\ IqData["i"][7] # IqData["i"][6]

\* C21: for 'lsb', 'usb' and 'ssb' the three unset leading elements of the
\* Hilbert sequence stay a boundary artifact: every sample of realSignal at
\* n >= 3 is a finite number.
C21_BoundaryDoesNotSpread ==
    /\ call # <<>>
    /\ call[1].modulationType \in {"lsb", "usb", "ssb"}
    => LET s == Signal
       IN  /\ Returns(s)
           /\ \A n \in 3 .. gen.numSamples - 1 : IsNumber(s["realSignal"][n])

\* C22: after updateParameters(p) the generator's snr and modulationIndex
\* are p.snr and p.modulationIndex, 0 included.
C22_SuppliedValueIsUsed ==
    params # <<>>
    => /\ gen.snr = params[1].snr
       /\ gen.modulationIndex = params[1].modulationIndex

\* C23: approximateHilbertTransform returns a sequence as long as its input
\* whose element n is 0.5 * (m[n] - m[n - 2]) for n >= 3 and whose elements
\* 0, 1, 2 are unset, and it leaves the input as it was.  The sequence is
\* read where generateLSB, USB and SSB return it, as imagSignal; every index
\* is compared on a new generator and, the message being the same after
\* updateParameters, the first ten there.
C23_HilbertDifference ==
    /\ call # <<>>
    /\ call[1].modulationType \in {"lsb", "usb", "ssb"}
    => LET message == GenerateVoiceLikeSignal(gen, GenerateTimeArray(gen))
           after == HilbertInputAfter(message)
           s == Signal
       IN  /\ Length(s["imagSignal"]) = Length(message)
           /\ Length(after) = Length(message)
           /\ \A n \in (IF params = <<>> THEN 0 .. Length(message) - 1
                                         ELSE 0 .. 9) :
                LET h == s["imagSignal"][n]
                IN  /\ n >= 3 =>
                         h = Mul(Ratio(1, 2), Sub(message[n], message[n - 2]))
                    /\ n < 3 => h = Undefined
                    /\ after[n] = message[n]

C23_Witness ==
    /\ call # <<>>
    /\ call[1].modulationType = "lsb"
    /\ gen.messageFreq = 100
    /\ Length(Signal["imagSignal"]) = 44100
    /\ Signal["imagSignal"][2] = Undefined
    /\ Signal["imagSignal"][3]
         = Mul(Ratio(1, 2), Sub(<<"voice", 100, 3>>, <<"voice", 100, 1>>))
    /\ Signal["imagSignal"][3] # Signal["imagSignal"][4]

\* C24: with the same parameters and message, the signal generateSSB(true)
\* modulates before noise is generateLSB's and the one generateSSB(false)
\* modulates is generateUSB's, sample for sample, and generateSignal('ssb')
\* returns what the USB form returns.  Every index is compared on a new
\* generator and the first ten after updateParameters.
C24_SsbIsLsbOrUsb ==
    /\ call # <<>>
    /\ call[1].modulationType = "ssb"
    => LET lsb == ModulatedLSB(gen)
           usb == ModulatedUSB(gen)
           ssbLower == ModulatedSSB(gen, TRUE)
           ssbUpper == ModulatedSSB(gen, FALSE)
           s == Signal
           u == GenerateUSB(gen)
       IN  /\ Returns(s)
           /\ \A n \in (IF params = <<>> THEN 0 .. gen.numSamples - 1
                                         ELSE 0 .. 9) :
                /\ ssbLower[n] = lsb[n]
                /\ ssbUpper[n] = usb[n]
                /\ s["realSignal"][n] = u["realSignal"][n]
                /\ s["imagSignal"][n] = u["imagSignal"][n]

C24_Witness ==
    /\ call # <<>>
    /\ call[1].modulationType = "ssb"
    /\ gen.carrierFreq = 2000
    /\ ModulatedSSB(gen, TRUE)[5] = ModulatedLSB(gen)[5]
    /\ ModulatedSSB(gen, FALSE)[5] = ModulatedUSB(gen)[5]
    /\ IsNumber(ModulatedLSB(gen)[5])
    /\ ModulatedLSB(gen)[5] # ModulatedUSB(gen)[5]

\* the sample at index n of a symbol-based kind whose symbol has the
\* constellation point `point`, with the noise of a measurable signal
SymbolSample(modulationType, g, point, n) ==
    LET noise == Mul(NoiseAmplitude(<<"meansquare">>, g.snr), Gauss(n))
    IN  CASE modulationType = "bpsk" ->
               Add(Mul(point.x, Cos(g.carrierFreq, n)), noise)
          [] modulationType = "qpsk" ->
               Add(Sub(Mul(point.x, Cos(g.carrierFreq, n)),
                       Mul(point.y, Sin(g.carrierFreq, n))), noise)
          [] modulationType = "fsk" ->
               Add(Cos(IF point.x = Num(1)
                       THEN g.carrierFreq + g.frequencyDeviation
                       ELSE g.carrierFreq - g.frequencyDeviation, n), noise)

\* the constellation point of the symbol drawn as u
DrawnPoint(modulationType, u) ==
    CASE modulationType = "bpsk" -> [ x |-> BpskBit(u), y |-> Num(0) ]
      [] modulationType = "qpsk" ->
           [ x |-> QpskSymbol(u).i, y |-> QpskSymbol(u).q ]
      [] modulationType = "fsk" ->
           [ x |-> IF FskBit(u) = Num(1) THEN Num(1) ELSE Num(-1),
             y |-> Num(0) ]

\* C25: in a returned bpsk, qpsk or fsk signal the k-th constellation point
\* is the k-th drawn symbol, symbol k has the samples n with
\* floor(n / samplesPerSymbol) = k, the first of them at k * samplesPerSymbol,
\* and every one of those samples is generated from the value of point k.
C25_SymbolOfSample ==
    /\ call # <<>>
    /\ call[1].modulationType \in SymbolTypes
    => LET s == Signal
           kind == call[1].modulationType
           points == s["constellation"]["points"]
       IN  Returns(s) =>
             /\ \A k \in 0 .. Length(points) - 1 :
                  /\ points[k + 1] = DrawnPoint(kind, Draw(call[1].draws, k))
                  /\ k * SamplesPerSymbol(gen) \in 0 .. gen.numSamples - 1
                  /\ SymbolIndex(gen, k * SamplesPerSymbol(gen)) = k
             /\ \A n \in 0 .. gen.numSamples - 1 :
                  LET k == SymbolIndex(gen, n)
                  IN  k \in 0 .. Length(points) - 1 =>
                        s["realSignal"][n]
                          = SymbolSample(kind, gen, points[k + 1], n)

\* C26: in estimateSnr the residual mean square is the sum of the squared
\* residuals of the interior samples 4 <= i < len - 4, each s[i] less the mean
\* of s[i-4], s[i-2], s[i], s[i+2], s[i+4], divided by their number len - 8.
C26_ResidualMeanSquare ==
    /\ analyzeCall # <<>>
    /\ Length(analyzeCall[1].realSignal) > 8
    => LET signal == analyzeCall[1].realSignal
           len == Length(signal)
       IN  NoisePower(signal) = Ratio(SumResiduals(signal, len - 5), 25 * (len - 8))

\* C27: computeFFT, addNoise, estimateSnr, estimateBandwidth and analyzeSignal
\* leave the signal array, the spectrum and the params object they are given
\* as they were, and the generator's stored parameters as they were: every
\* call leaves each of these objects equal to what it found.
C27_InputsUnchanged ==
    [][\A n \in ArgNames : heap'.objects[n] = heap.objects[n]]_vars

\* computeFFT has run on a generator with updated parameters and the signal
\* with the outlier: its window of 1024 copies of signal[0] and its 512
\* magnitudes and labels are new objects
C27_Witness ==
    /\ heap.call = "computeFFT"
    /\ heap.objects["this"].carrierFreq = 2000
    /\ heap.objects["signal"][6] = Num(1000)
    /\ Length(heap.objects["signal"]) = 12
    /\ heap.objects["fft"] = FftWindow(heap.objects["signal"], 1024)
    /\ heap.objects["fft"][1023] = Num(1)
    /\ heap.objects["returned"].magnitude
         = ComputeFFT(heap.objects["this"], heap.objects["signal"]).magnitude
    /\ Length(heap.objects["returned"].frequencies) = 512

\* a y value that is a number of [0, 1]
InUnitInterval(y) ==
    /\ IsNumber(y)
    /\ IsInt(y) => y[2] \in {0, 1}
    /\ ~IsInt(y) => y[1] = "ratio" /\ 0 <= y[2] /\ y[2] <= y[3]

\* C28: after any sequence of updateWaterfallChart calls the history holds at
\* most maxWaterfallLines (20) lines, the line of the latest call is at index
\* 0, and every point of every stored line has a y value that is a number of
\* [0, 1], also after the first call, when the history holds one line.
C28_WaterfallBounded ==
    /\ Len(waterfallData) <= MaxWaterfallLines
    /\ waterfallCall # <<>> =>
         /\ Len(waterfallData) >= 1
         /\ waterfallData[1].borderColor
              = GetColorGradient(waterfallCall[1].magnitude)
         /\ \A j \in DOMAIN waterfallData[1].data :
              waterfallData[1].data[j].x = waterfallCall[1].frequencies[j]
    /\ \A i \in 1 .. Len(waterfallData) :
         \A j \in DOMAIN waterfallData[i].data :
           InUnitInterval(waterfallData[i].data[j].y)

====
